---- MODULE Spec2Model ----
(***************************************************************************)
(* Model of src/app/main.py: the two upload handlers (upload_video and     *)
(* upload_and_transcribe) running as coroutines of one event loop over a   *)
(* shared file system.                                                     *)
(*                                                                         *)
(* Texts are sequences of one-character strings.  A file's content is the  *)
(* sequence of tokens written to it.  The Korean literals of the source    *)
(* are transliterated to ASCII (the parser accepts ASCII strings only):    *)
(*   "[KO]\n"  header of the transcript artifact   (main.py line 253)      *)
(*   "[EN]"    header of the translation artifact  (main.py lines 263,266) *)
(*   "translation failed: "   the sentinel marker  (main.py line 285)      *)
(*   "STT or translation failed: "  failure detail (main.py line 299)      *)
(*   "upload failed: "              failure detail (main.py line 217)      *)
(*   "username already in use"      detail of the 400 (main.py line 140)   *)
(*   "user not found"               detail of the 404 (main.py line 195)   *)
(***************************************************************************)
EXTENDS Naturals, Sequences, FiniteSets, TLC

VARIABLES
  pc,          \* pc[r]: the position of run r in its handler
  req,         \* req[r]: the request of run r (handler, filename, bytes)
  loop,        \* the run the event loop is executing, or "none"
  fs,          \* the file system: path -> [exists, data]
  clip,        \* clip[r]: the AudioFileClip handle of run r
  result,      \* result[r]: result["segments"] of run r
  idx,         \* idx[r]: position of the for loop over the segments
  reply,       \* reply[r]: translated_text of the current iteration
  translation, \* translation[r]: the list `translation` of run r
  response,    \* response[r]: the HTTP response sent for run r
  sent,        \* sent[r]: the number of responses sent for run r
  exc,         \* exc[r]: str(e) of the exception the handler caught
  failedAt,    \* failedAt[r]: the position at which that exception was raised
  calls,       \* calls[r]: outcome of the try body of each finished iteration
  users,       \* the committed rows of the table `users`
  nextId,      \* the next value of the AUTO_INCREMENT column user_id
  pending,     \* pending[c]: the row caller c inserted and has not committed
  upc,         \* upc[c]: the position of caller c in create_user
  data,        \* data[c]: data.username of caller c's create_user request
  row,         \* row[c]: the row fetched at line 135
  new_id,      \* new_id[c]: the value fetched at lines 151-152
  uresp,       \* uresp[c]: the response of caller c's create_user request
  seen         \* seen[c]: the response of read_user(uresp[c].user_id)

\* The state of the user store and of the calls of create_user.
userVars == <<users, nextId, pending, upc, data, row, new_id, uresp, seen>>

\* The state of the upload handlers.
pipeVars == <<pc, req, loop, fs, clip, result, idx, reply, translation,
              response, sent, exc, failedAt, calls>>

vars == <<pc, req, loop, fs, clip, result, idx, reply, translation,
          response, sent, exc, failedAt, calls,
          users, nextId, pending, upc, data, row, new_id, uresp, seen>>

(***************************************************************************)
(* Bounds of the model.                                                    *)
(***************************************************************************)
\* The longest upload of a run that has the server to itself: one byte of the
\* upload stands for one utterance of its sound track, so this is also the
\* largest number of segments of a transcript.
MaxSegs == 3

\* The longest upload when two runs share the server.
MaxPairLen == 1

\* The largest number of utterances of an upload where termination is checked.
MaxLiveSegs == 2

Runs == {"r1", "r2"}

(***************************************************************************)
(* Program constants.                                                      *)
(***************************************************************************)
UPLOAD_FOLDER == "uploaded_videos"
AUDIO_FOLDER == "extracted_audio"

(***************************************************************************)
(* Inputs.                                                                 *)
(***************************************************************************)
\* Client filenames, already split at the extension.
FileNames ==
  { [root |-> "a", ext |-> ".mp4"],
    [root |-> "a", ext |-> ".mov"],
    [root |-> "b", ext |-> ".mp4"] }

\* The bytes of an upload.
Bytes == { "h", "y" }

\* str(e) of the exceptions the environment raises.
Msgs == { "[Errno 28] No space left on device", "timeout" }

RECURSIVE SeqsUpTo(_, _)
SeqsUpTo(S, n) ==
  IF n = 0 THEN { <<>> }
  ELSE LET shorter == SeqsUpTo(S, n - 1)
       IN  shorter \cup { Append(s, x) : s \in shorter, x \in S }

\* Uploaded byte strings of at most n bytes (the empty upload included).
Contents(n) == SeqsUpTo(Bytes, n)

\* What is spoken in the stretch of sound track one byte stands for, and for
\* how long (milliseconds).
Spoken(b) == IF b = "h" THEN <<"h", "i">> ELSE <<" ", "y", "o">>
Duration(b) == IF b = "h" THEN 2500 ELSE 1492

\* The distance in time between the starts of two consecutive utterances.
Pitch == 2504

\* model.transcribe(audio_path)["segments"] for a waveform file a: one segment
\* per utterance, in the order spoken, times in milliseconds.
Whisper(a) ==
  [i \in 1..(Len(a) - 1) |->
     [start |-> (i - 1) * Pitch,
      end   |-> (i - 1) * Pitch + Duration(a[i + 1]),
      text  |-> Spoken(a[i + 1])]]

\* The message contents the translation service may return for one segment:
\* one line of text, possibly padded with white space.
Replies == { <<"o", "k">>, <<" ", "o", "k", "\n">> }

(***************************************************************************)
(* Pure functions of the handlers.                                         *)
(***************************************************************************)
\* file.filename
FileName(fn) == fn.root \o fn.ext

\* os.path.splitext(file.filename)[0]
SplitExtRoot(fn) == fn.root

\* os.path.join(a, b)
PathJoin(a, b) == a \o "/" \o b

VideoPath(fn) == PathJoin(UPLOAD_FOLDER, FileName(fn))
AudioPath(fn) == PathJoin(AUDIO_FOLDER, SplitExtRoot(fn) \o ".wav")
TranscriptionFile(fn) ==
  PathJoin(AUDIO_FOLDER, SplitExtRoot(fn) \o "_transcription.txt")
EnglishTranscriptionFile(fn) ==
  PathJoin(AUDIO_FOLDER, SplitExtRoot(fn) \o "_translation.txt")

Paths ==
  UNION { { VideoPath(fn), AudioPath(fn), TranscriptionFile(fn),
            EnglishTranscriptionFile(fn) } : fn \in FileNames }

Digit == <<"0", "1", "2", "3", "4", "5", "6", "7", "8", "9">>

RECURSIVE NatStr(_)
NatStr(n) ==
  IF n < 10 THEN Digit[n + 1] ELSE NatStr(n \div 10) \o Digit[(n % 10) + 1]

\* f"{t:.2f}" of a time of ms milliseconds: rounded to hundredths of a second.
Fmt2(ms) ==
  LET h == (ms + 5) \div 10
  IN  NatStr(h \div 100) \o "." \o Digit[((h \div 10) % 10) + 1]
        \o Digit[(h % 10) + 1]

\* f"[{start_time:.2f}s - {end_time:.2f}s] "
TimePrefix(seg) == "[" \o Fmt2(seg.start) \o "s - " \o Fmt2(seg.end) \o "s] "

WhiteSpace == { " ", "\t", "\n" }

RECURSIVE LStrip(_)
LStrip(t) ==
  IF t # <<>> /\ Head(t) \in WhiteSpace THEN LStrip(Tail(t)) ELSE t

RECURSIVE RStrip(_)
RStrip(t) ==
  IF t # <<>> /\ t[Len(t)] \in WhiteSpace
    THEN RStrip(SubSeq(t, 1, Len(t) - 1)) ELSE t

\* The reply is used as returned.
NoStrip(t) == t

\* str.strip()
Strip(t) == RStrip(LStrip(t))

\* f"[{start_time:.2f}s - {end_time:.2f}s] {text}\n"
TranscriptLine(seg) == <<TimePrefix(seg)>> \o seg.text \o <<"\n">>

\* Only the translated text is written.
TranslatedLineNoTiming(seg, translated) == translated \o <<"\n">>

\* f"[{start_time:.2f}s - {end_time:.2f}s] {translated_text}\n"
TranslatedLine(seg, translated) == <<TimePrefix(seg)>> \o translated \o <<"\n">>

\* f"[{start_time:.2f}s - {end_time:.2f}s] <sentinel>{text}\n"
SentinelLine(seg) ==
  <<TimePrefix(seg), "translation failed: ">> \o seg.text \o <<"\n">>

TranscriptHeader == <<"[KO]", "\n">>
TranslationHeader == <<"[EN]", "\n">>

(***************************************************************************)
(* The file system.                                                        *)
(***************************************************************************)
NoFile == [exists |-> FALSE, data |-> <<>>]
File(d) == [exists |-> TRUE, data |-> d]

\* The file is opened for appending: created when missing, kept otherwise.
NoTruncate(f, p) == [f EXCEPT ![p] = File(@.data)]

\* open(path, "w") / open(path, "wb"): creates the file or truncates it.
Truncate(f, p) == [f EXCEPT ![p] = File(<<>>)]

\* write(d) through a handle positioned at offset 0 of the file at p.
WriteAt0(f, p, d) ==
  [f EXCEPT ![p] = File(d \o SubSeq(@.data, Len(d) + 1, Len(@.data)))]

\* write(d) through a handle positioned at the end of the file at p.
AppendTo(f, p, d) == [f EXCEPT ![p] = File(@.data \o d)]

\* What write_audiofile stores for a decoded clip.
Wav(d) == <<"RIFF">> \o d

(***************************************************************************)
(* Requests and responses.                                                 *)
(***************************************************************************)
NoReq == [kind |-> "none", file |-> [root |-> "", ext |-> ""], content |-> <<>>]

NoResponse ==
  [status |-> 0, transcription |-> <<>>, translation |-> <<>>,
   message |-> "", detail |-> ""]

\* JSONResponse(content={"transcription": .., "translation": ..}, 200)
SuccessResponse(t, e) ==
  [status |-> 200, transcription |-> t, translation |-> e,
   message |-> "", detail |-> ""]

\* HTTPException(status_code=500, detail=f"<prefix>{str(e)}")
FailureResponse(prefix, msg) ==
  [status |-> 500, transcription |-> <<>>, translation |-> <<>>,
   message |-> "", detail |-> prefix \o msg]

\* JSONResponse(content={"message": ..}, 200) of upload_video
UploadedResponse(fn) ==
  [status |-> 200, transcription |-> <<>>, translation |-> <<>>,
   message |-> "uploaded " \o FileName(fn), detail |-> ""]

NoClip == [open |-> FALSE, data |-> <<>>]

Request(k, fn, c) == [kind |-> k, file |-> fn, content |-> c]

Kinds == {"stt", "upload"}

(***************************************************************************)
(* The user store (main.py lines 96-196).                                  *)
(***************************************************************************)
\* The concurrent requests to /users: create_user is a `def` handler, which
\* the server runs in a thread pool, each call on a connection of its own.
Callers == {"c1", "c2"}

\* data.username of a request: a name of the sample data and two new ones.
UserNames == {"Alice", "Carol", "Dave"}

\* The table after init_db: the two sample rows, numbered from 1.
SampleUsers ==
  { [user_id |-> 1, username |-> "Alice"], [user_id |-> 2, username |-> "Bob"] }

NoRow == [user_id |-> 0, username |-> ""]

NoUserResponse == [status |-> 0, user_id |-> 0, username |-> "", detail |-> ""]

\* The User model of lines 51-53, answered with 200.
UserResponse(id, name) ==
  [status |-> 200, user_id |-> id, username |-> name, detail |-> ""]

\* HTTPException(status_code=.., detail=..), and the server's answer to an
\* exception that no handler caught (500, "Internal Server Error").
UserError(code, d) ==
  [status |-> code, user_id |-> 0, username |-> "", detail |-> d]

\* The rows of the table t whose username is name.
ByName(t, name) == { u \in t : u.username = name }

\* The rows of the table t whose user_id is id.
ById(t, id) == { u \in t : u.user_id = id }

\* SELECT MAX(user_id) FROM users.
MaxUserId(t) ==
  IF t = {} THEN 0
  ELSE CHOOSE m \in { u.user_id : u \in t } : \A u \in t : u.user_id <= m

\* The state of the user store after init_db, with the requests d to /users
\* received ("" for a caller that sends none).
Called(d) ==
  /\ data = d
  /\ upc = [c \in Callers |-> IF d[c] = "" THEN "idle" ELSE "received"]
  /\ users = SampleUsers
  /\ nextId = MaxUserId(SampleUsers) + 1
  /\ pending = [c \in Callers |-> NoRow]
  /\ row = [c \in Callers |-> NoRow]
  /\ new_id = [c \in Callers |-> 0]
  /\ uresp = [c \in Callers |-> NoUserResponse]
  /\ seen = [c \in Callers |-> NoUserResponse]

NoCalls == [c \in Callers |-> ""]

\* The state after the server has started and the requests have arrived.
Started(q) ==
  /\ req = q
  /\ pc = [r \in Runs |-> IF q[r] = NoReq THEN "idle" ELSE "received"]
  /\ loop = "none"
  /\ fs = [p \in Paths |-> NoFile]
  /\ clip = [r \in Runs |-> NoClip]
  /\ result = [r \in Runs |-> <<>>]
  /\ idx = [r \in Runs |-> 0]
  /\ reply = [r \in Runs |-> <<>>]
  /\ translation = [r \in Runs |-> <<>>]
  /\ response = [r \in Runs |-> NoResponse]
  /\ sent = [r \in Runs |-> 0]
  /\ exc = [r \in Runs |-> ""]
  /\ failedAt = [r \in Runs |-> ""]
  /\ calls = [r \in Runs |-> <<>>]

\* One request, of either handler, for any filename and any upload of at most
\* MaxSegs bytes.
Init ==
  /\ Called(NoCalls)
  /\ \E k \in Kinds, fn \in FileNames, c \in Contents(MaxSegs) :
       Started([r \in Runs |-> IF r = "r1" THEN Request(k, fn, c) ELSE NoReq])

\* Two requests that share paths (a request that shares no path with the
\* other runs as in Init).  The filenames matter only through the paths they
\* share, so the first request's filename is fixed and the second's is either
\* the same or one with the same root.
InitPair ==
  /\ Called(NoCalls)
  /\ \E k1 \in Kinds, k2 \in Kinds, fn2 \in {fn \in FileNames : fn.root = "a"},
        c1 \in Contents(MaxPairLen), c2 \in Contents(MaxPairLen) :
       Started([r \in Runs |->
                  IF r = "r1"
                    THEN Request(k1, [root |-> "a", ext |-> ".mp4"], c1)
                    ELSE Request(k2, fn2, c2)])

(***************************************************************************)
(* upload_video (main.py lines 201-217).                                   *)
(***************************************************************************)
StepVars == <<clip, result, idx, reply, translation, calls>>

\* Lines 208-212: the handler opens the video file for writing, which
\* truncates it, and suspends at `await file.read()`.
UvOpen(r) ==
  /\ pc[r] = "received" /\ req[r].kind = "upload" /\ loop = "none"
  /\ fs' = Truncate(fs, VideoPath(req[r].file))
  /\ pc' = [pc EXCEPT ![r] = "uv_await"]
  /\ UNCHANGED <<req, loop, response, sent, exc, failedAt>>
  /\ UNCHANGED StepVars
  /\ UNCHANGED userVars

\* Lines 212-213: the read returns, the bytes are written through the handle
\* opened before the await, and the file is closed.
UvWrite(r) ==
  /\ pc[r] = "uv_await" /\ loop = "none"
  /\ fs' = WriteAt0(fs, VideoPath(req[r].file), req[r].content)
  /\ pc' = [pc EXCEPT ![r] = "uv_return"]
  /\ loop' = r
  /\ UNCHANGED <<req, response, sent, exc, failedAt>>
  /\ UNCHANGED StepVars
  /\ UNCHANGED userVars

\* Line 215.
UvReturn(r) ==
  /\ pc[r] = "uv_return" /\ loop = r
  /\ response' = [response EXCEPT ![r] = UploadedResponse(req[r].file)]
  /\ sent' = [sent EXCEPT ![r] = @ + 1]
  /\ pc' = [pc EXCEPT ![r] = "done"]
  /\ loop' = "none"
  /\ exc' = [exc EXCEPT ![r] = ""]
  /\ UNCHANGED <<req, fs, failedAt>>
  /\ UNCHANGED StepVars
  /\ UNCHANGED userVars

\* Line 216: open, read or write raises.
UvRaise(r) ==
  /\ pc[r] \in {"received", "uv_await"} /\ req[r].kind = "upload"
  /\ loop = "none"
  /\ \E m \in Msgs : exc' = [exc EXCEPT ![r] = m]
  /\ failedAt' = [failedAt EXCEPT ![r] = pc[r]]
  /\ pc' = [pc EXCEPT ![r] = "uv_except"]
  /\ loop' = r
  /\ UNCHANGED <<req, fs, response, sent>>
  /\ UNCHANGED StepVars
  /\ UNCHANGED userVars

\* Line 217.
UvExcept(r) ==
  /\ pc[r] = "uv_except" /\ loop = r
  /\ response' = [response EXCEPT ![r] = FailureResponse("upload failed: ", exc[r])]
  /\ sent' = [sent EXCEPT ![r] = @ + 1]
  /\ pc' = [pc EXCEPT ![r] = "done"]
  /\ loop' = "none"
  /\ exc' = [exc EXCEPT ![r] = ""]
  /\ UNCHANGED <<req, fs, failedAt>>
  /\ UNCHANGED StepVars
  /\ UNCHANGED userVars

(***************************************************************************)
(* upload_and_transcribe (main.py lines 222-299).                          *)
(***************************************************************************)
\* Lines 228-233: the video file is opened for writing (truncated) and the
\* handler suspends at `await file.read()`.
SttOpenVideo(r) ==
  /\ pc[r] = "received" /\ req[r].kind = "stt" /\ loop = "none"
  /\ fs' = Truncate(fs, VideoPath(req[r].file))
  /\ pc' = [pc EXCEPT ![r] = "await_read"]
  /\ UNCHANGED <<req, loop, response, sent, exc, failedAt>>
  /\ UNCHANGED StepVars
  /\ UNCHANGED userVars

\* The handler goes from the upload straight to the transcription.
SttWriteVideoSkipsExtraction(r) ==
  /\ pc[r] = "await_read" /\ loop = "none"
  /\ fs' = WriteAt0(fs, VideoPath(req[r].file), req[r].content)
  /\ pc' = [pc EXCEPT ![r] = "transcribe"]
  /\ loop' = r
  /\ UNCHANGED <<req, response, sent, exc, failedAt>>
  /\ UNCHANGED StepVars
  /\ UNCHANGED userVars

\* Lines 233-235: the read returns and the bytes are written through the
\* handle opened before the await.  From here on the handler never awaits: it
\* keeps the event loop until it responds.
SttWriteVideo(r) ==
  /\ pc[r] = "await_read" /\ loop = "none"
  /\ fs' = WriteAt0(fs, VideoPath(req[r].file), req[r].content)
  /\ pc' = [pc EXCEPT ![r] = "open_clip"]
  /\ loop' = r
  /\ UNCHANGED <<req, response, sent, exc, failedAt>>
  /\ UNCHANGED StepVars
  /\ UNCHANGED userVars

\* Lines 238-239: AudioFileClip(video_path) opens a decoder on the video.
OpenClip(r) ==
  /\ pc[r] = "open_clip" /\ loop = r
  /\ fs[VideoPath(req[r].file)].exists
  /\ clip' = [clip EXCEPT ![r] =
                [open |-> TRUE, data |-> fs[VideoPath(req[r].file)].data]]
  /\ pc' = [pc EXCEPT ![r] = "write_audio"]
  /\ UNCHANGED <<req, loop, fs, result, idx, reply, translation, response,
                 sent, exc, failedAt, calls>>
  /\ UNCHANGED userVars

\* Line 240: write_audiofile stores the decoded waveform.
WriteAudio(r) ==
  /\ pc[r] = "write_audio" /\ loop = r
  /\ fs' = [fs EXCEPT ![AudioPath(req[r].file)] = File(Wav(clip[r].data))]
  /\ pc' = [pc EXCEPT ![r] = "close_clip"]
  /\ UNCHANGED <<req, loop, clip, result, idx, reply, translation, response,
                 sent, exc, failedAt, calls>>
  /\ UNCHANGED userVars

\* Line 240 raises: the encoder may or may not have created the output file
\* before failing.  Control leaves the try body with the clip still open.
WriteAudioRaise(r) ==
  /\ pc[r] = "write_audio" /\ loop = r
  /\ \E created \in BOOLEAN :
       fs' = IF created
               THEN [fs EXCEPT ![AudioPath(req[r].file)] = File(<<"RIFF">>)]
               ELSE fs
  /\ \E m \in Msgs : exc' = [exc EXCEPT ![r] = m]
  /\ failedAt' = [failedAt EXCEPT ![r] = pc[r]]
  /\ pc' = [pc EXCEPT ![r] = "except"]
  /\ UNCHANGED <<req, loop, clip, result, idx, reply, translation, response,
                 sent, calls>>
  /\ UNCHANGED userVars

\* Line 241: audio_clip.close().
CloseClip(r) ==
  /\ pc[r] = "close_clip" /\ loop = r
  /\ clip' = [clip EXCEPT ![r].open = FALSE]
  /\ pc' = [pc EXCEPT ![r] = "transcribe"]
  /\ UNCHANGED <<req, loop, fs, result, idx, reply, translation, response,
                 sent, exc, failedAt, calls>>
  /\ UNCHANGED userVars

\* Line 246: model.transcribe(audio_path) returns the ordered segments.
Transcribe(r) ==
  /\ pc[r] = "transcribe" /\ loop = r
  /\ fs[AudioPath(req[r].file)].exists
  /\ result' = [result EXCEPT ![r] = Whisper(fs[AudioPath(req[r].file)].data)]
  /\ pc' = [pc EXCEPT ![r] = "open_transcript"]
  /\ UNCHANGED <<req, loop, fs, clip, idx, reply, translation, response,
                 sent, exc, failedAt, calls>>
  /\ UNCHANGED userVars

\* Lines 250-253: the transcript file is opened (truncated) and the header
\* is written.
OpenTranscript(r) ==
  /\ pc[r] = "open_transcript" /\ loop = r
  /\ fs' = AppendTo(Truncate(fs, TranscriptionFile(req[r].file)),
                    TranscriptionFile(req[r].file), TranscriptHeader)
  /\ idx' = [idx EXCEPT ![r] = 1]
  /\ pc' = [pc EXCEPT ![r] = "write_transcript"]
  /\ UNCHANGED <<req, loop, clip, result, reply, translation, response,
                 sent, exc, failedAt, calls>>
  /\ UNCHANGED userVars

\* Lines 254-258: one iteration of the loop that writes the transcript.
WriteTranscriptLine(r) ==
  /\ pc[r] = "write_transcript" /\ loop = r
  /\ idx[r] <= Len(result[r])
  /\ fs' = AppendTo(fs, TranscriptionFile(req[r].file),
                    TranscriptLine(result[r][idx[r]]))
  /\ idx' = [idx EXCEPT ![r] = @ + 1]
  /\ UNCHANGED <<pc, req, loop, clip, result, reply, translation, response,
                 sent, exc, failedAt, calls>>
  /\ UNCHANGED userVars

\* Lines 258-259: the loop is over and the with block closes the file.
CloseTranscript(r) ==
  /\ pc[r] = "write_transcript" /\ loop = r
  /\ idx[r] > Len(result[r])
  /\ pc' = [pc EXCEPT ![r] = "open_translation"]
  /\ UNCHANGED <<req, loop, fs, clip, result, idx, reply, translation,
                 response, sent, exc, failedAt, calls>>
  /\ UNCHANGED userVars

\* Lines 262-266: the list `translation` is created, the translation file is
\* opened (truncated) and its header is written.
OpenTranslation(r) ==
  /\ pc[r] = "open_translation" /\ loop = r
  /\ translation' = [translation EXCEPT ![r] = << <<"[EN]">> >>]
  /\ fs' = AppendTo(Truncate(fs, EnglishTranscriptionFile(req[r].file)),
                    EnglishTranscriptionFile(req[r].file), TranslationHeader)
  /\ idx' = [idx EXCEPT ![r] = 1]
  /\ pc' = [pc EXCEPT ![r] = "translate"]
  /\ UNCHANGED <<req, loop, clip, result, reply, response, sent, exc,
                 failedAt, calls>>
  /\ UNCHANGED userVars

\* Lines 267-278: the translation service answers for the current segment.
TranslateCall(r) ==
  /\ pc[r] = "translate" /\ loop = r
  /\ idx[r] <= Len(result[r])
  /\ \E t \in Replies : reply' = [reply EXCEPT ![r] = t]
  /\ pc' = [pc EXCEPT ![r] = "write_translated"]
  /\ UNCHANGED <<req, loop, fs, clip, result, idx, translation, response,
                 sent, exc, failedAt, calls>>
  /\ UNCHANGED userVars

\* The exception of the translation call is not caught at line 283: it
\* reaches the handler's except clause.
TranslateCallRaiseAborts(r) ==
  /\ pc[r] = "translate" /\ loop = r
  /\ idx[r] <= Len(result[r])
  /\ \E m \in Msgs : exc' = [exc EXCEPT ![r] = m]
  /\ failedAt' = [failedAt EXCEPT ![r] = pc[r]]
  /\ pc' = [pc EXCEPT ![r] = "except"]
  /\ UNCHANGED <<req, loop, fs, clip, result, idx, reply, translation,
                 response, sent, calls>>
  /\ UNCHANGED userVars

\* Lines 272-278 raise and nothing catches the exception: the run stops
\* without a response.
TranslateCallRaiseStops(r) ==
  /\ pc[r] = "translate" /\ loop = r
  /\ idx[r] <= Len(result[r])
  /\ pc' = [pc EXCEPT ![r] = "stopped"]
  /\ UNCHANGED <<req, loop, fs, clip, result, idx, reply, translation,
                 response, sent, exc, failedAt, calls>>
  /\ UNCHANGED userVars

\* Lines 272-278 raise: the exception is caught at line 283.
TranslateCallRaise(r) ==
  /\ pc[r] = "translate" /\ loop = r
  /\ idx[r] <= Len(result[r])
  /\ reply' = [reply EXCEPT ![r] = <<>>]
  /\ calls' = [calls EXCEPT ![r] = Append(@, [raised |-> "call", reply |-> <<>>])]
  /\ pc' = [pc EXCEPT ![r] = "write_sentinel"]
  /\ UNCHANGED <<req, loop, fs, clip, result, idx, translation, response,
                 sent, exc, failedAt>>
  /\ UNCHANGED userVars

\* Lines 279-282: the reply is stripped, formatted, written and appended.
WriteTranslated(r) ==
  /\ pc[r] = "write_translated" /\ loop = r
  /\ LET line == TranslatedLine(result[r][idx[r]], Strip(reply[r]))
     IN  /\ fs' = AppendTo(fs, EnglishTranscriptionFile(req[r].file), line)
         /\ translation' = [translation EXCEPT ![r] = Append(@, line)]
  /\ calls' = [calls EXCEPT ![r] =
                 Append(@, [raised |-> "no", reply |-> reply[r]])]
  /\ idx' = [idx EXCEPT ![r] = @ + 1]
  /\ pc' = [pc EXCEPT ![r] = "translate"]
  /\ UNCHANGED <<req, loop, clip, result, reply, response, sent, exc,
                 failedAt>>
  /\ UNCHANGED userVars

\* Line 281 raises before anything is written: the write is inside the try
\* body, so this exception too is caught at line 283.
WriteTranslatedRaise(r) ==
  /\ pc[r] = "write_translated" /\ loop = r
  /\ calls' = [calls EXCEPT ![r] =
                 Append(@, [raised |-> "write", reply |-> reply[r]])]
  /\ pc' = [pc EXCEPT ![r] = "write_sentinel"]
  /\ UNCHANGED <<req, loop, fs, clip, result, idx, reply, translation,
                 response, sent, exc, failedAt>>
  /\ UNCHANGED userVars

\* Lines 283-287: the sentinel line with the original text is written.
WriteSentinel(r) ==
  /\ pc[r] = "write_sentinel" /\ loop = r
  /\ LET line == SentinelLine(result[r][idx[r]])
     IN  /\ fs' = AppendTo(fs, EnglishTranscriptionFile(req[r].file), line)
         /\ translation' = [translation EXCEPT ![r] = Append(@, line)]
  /\ idx' = [idx EXCEPT ![r] = @ + 1]
  /\ pc' = [pc EXCEPT ![r] = "translate"]
  /\ UNCHANGED <<req, loop, clip, result, reply, response, sent, exc,
                 failedAt, calls>>
  /\ UNCHANGED userVars

\* Lines 287-288: the loop is over and the with block closes the file.
CloseTranslation(r) ==
  /\ pc[r] = "translate" /\ loop = r
  /\ idx[r] > Len(result[r])
  /\ pc' = [pc EXCEPT ![r] = "read_back"]
  /\ UNCHANGED <<req, loop, fs, clip, result, idx, reply, translation,
                 response, sent, exc, failedAt, calls>>
  /\ UNCHANGED userVars

\* The handler returns or raises: its frame, and with it every local variable,
\* is gone.  Nothing closes the clip on the way out.
DropLocals(r) ==
  /\ result' = [result EXCEPT ![r] = <<>>]
  /\ idx' = [idx EXCEPT ![r] = 0]
  /\ reply' = [reply EXCEPT ![r] = <<>>]
  /\ translation' = [translation EXCEPT ![r] = <<>>]
  /\ calls' = [calls EXCEPT ![r] = <<>>]
  /\ exc' = [exc EXCEPT ![r] = ""]
  /\ UNCHANGED clip

\* Lines 291-295: both artifacts are read back and returned.
Respond(r) ==
  /\ pc[r] = "read_back" /\ loop = r
  /\ fs[TranscriptionFile(req[r].file)].exists
  /\ fs[EnglishTranscriptionFile(req[r].file)].exists
  /\ response' = [response EXCEPT ![r] =
       SuccessResponse(fs[TranscriptionFile(req[r].file)].data,
                       fs[EnglishTranscriptionFile(req[r].file)].data)]
  /\ sent' = [sent EXCEPT ![r] = @ + 1]
  /\ pc' = [pc EXCEPT ![r] = "done"]
  /\ loop' = "none"
  /\ DropLocals(r)
  /\ UNCHANGED <<req, fs, failedAt>>
  /\ UNCHANGED userVars

\* The positions at which an exception leaves the try body of lines 227-295
\* without any other effect: opening the video file, the read and the write
\* of the upload, opening and closing the clip, the transcription, opening,
\* writing and closing either artifact outside the inner try, the read-back.
FatalPoint(r) ==
  \/ pc[r] \in {"received", "await_read"} /\ loop = "none"
  \/ /\ pc[r] \in {"open_clip", "close_clip", "transcribe", "open_transcript",
                   "write_transcript", "open_translation", "write_sentinel",
                   "read_back"}
     /\ loop = r
  \/ pc[r] = "translate" /\ idx[r] > Len(result[r]) /\ loop = r

\* Line 297: an exception reaches the handler's except clause.
SttRaise(r) ==
  /\ req[r].kind = "stt"
  /\ FatalPoint(r)
  /\ \E m \in Msgs : exc' = [exc EXCEPT ![r] = m]
  /\ failedAt' = [failedAt EXCEPT ![r] = pc[r]]
  /\ pc' = [pc EXCEPT ![r] = "except"]
  /\ loop' = r
  /\ UNCHANGED <<req, fs, response, sent>>
  /\ UNCHANGED StepVars
  /\ UNCHANGED userVars

\* The except clause answers 200 with whatever the artifacts hold.
SttExceptReportsOk(r) ==
  /\ pc[r] = "except" /\ loop = r
  /\ response' = [response EXCEPT ![r] =
       SuccessResponse(fs[TranscriptionFile(req[r].file)].data,
                       fs[EnglishTranscriptionFile(req[r].file)].data)]
  /\ sent' = [sent EXCEPT ![r] = @ + 1]
  /\ pc' = [pc EXCEPT ![r] = "done"]
  /\ loop' = "none"
  /\ DropLocals(r)
  /\ UNCHANGED <<req, fs, failedAt>>
  /\ UNCHANGED userVars

\* Lines 298-299: the failure is logged and reported.
SttExcept(r) ==
  /\ pc[r] = "except" /\ loop = r
  /\ response' = [response EXCEPT ![r] =
                    FailureResponse("STT or translation failed: ", exc[r])]
  /\ sent' = [sent EXCEPT ![r] = @ + 1]
  /\ pc' = [pc EXCEPT ![r] = "done"]
  /\ loop' = "none"
  /\ DropLocals(r)
  /\ UNCHANGED <<req, fs, failedAt>>
  /\ UNCHANGED userVars

Next ==
  \E r \in Runs :
    \/ UvOpen(r) \/ UvWrite(r) \/ UvReturn(r) \/ UvRaise(r) \/ UvExcept(r)
    \/ SttOpenVideo(r) \/ SttWriteVideo(r)
    \/ OpenClip(r) \/ WriteAudio(r) \/ WriteAudioRaise(r) \/ CloseClip(r)
    \/ Transcribe(r)
    \/ OpenTranscript(r) \/ WriteTranscriptLine(r) \/ CloseTranscript(r)
    \/ OpenTranslation(r)
    \/ TranslateCall(r) \/ TranslateCallRaise(r)
    \/ WriteTranslated(r) \/ WriteTranslatedRaise(r) \/ WriteSentinel(r)
    \/ CloseTranslation(r)
    \/ Respond(r) \/ SttRaise(r) \/ SttExcept(r)

Spec == Init /\ [][Next]_vars

SpecPair == InitPair /\ [][Next]_vars

\* One request for a.mp4 with at most MaxLiveSegs utterances.
InitLive ==
  /\ Called(NoCalls)
  /\ \E k \in Kinds, c \in Contents(MaxLiveSegs) :
       Started([r \in Runs |->
                  IF r = "r1"
                    THEN Request(k, [root |-> "a", ext |-> ".mp4"], c)
                    ELSE NoReq])

\* Every call the handler makes returns or raises, and the event loop runs a
\* handler that can take a step.
FairSpec == InitLive /\ [][Next]_vars /\ WF_vars(Next)

(***************************************************************************)
(* create_user (main.py lines 129-158) and read_user (lines 182-196).      *)
(* The connection of jaydebeapi has autocommit off: the INSERT of line 146 *)
(* is visible to the other connections from the commit of line 147 on.     *)
(***************************************************************************)
\* Lines 130-135: the SELECT by username sees the committed rows.
CuSelect(c) ==
  /\ upc[c] = "received"
  /\ row' = [row EXCEPT ![c] =
               IF ByName(users, data[c]) = {} THEN NoRow
               ELSE CHOOSE u \in ByName(users, data[c]) : TRUE]
  /\ upc' = [upc EXCEPT ![c] = "check"]
  /\ UNCHANGED <<users, nextId, pending, data, new_id, uresp, seen>>
  /\ UNCHANGED pipeVars

\* Lines 136-140: a row was found, the request is answered with 400.
CuDuplicate(c) ==
  /\ upc[c] = "check" /\ row[c] # NoRow
  /\ uresp' = [uresp EXCEPT ![c] = UserError(400, "username already in use")]
  /\ upc' = [upc EXCEPT ![c] = "done"]
  /\ UNCHANGED <<users, nextId, pending, data, row, new_id, seen>>
  /\ UNCHANGED pipeVars

\* Another connection holds a row with caller c's username, committed or not.
Taken(c) ==
  \/ ByName(users, data[c]) # {}
  \/ \E o \in Callers \ {c} : pending[o].username = data[c]

\* Line 146: the INSERT takes the next user_id.  It waits while another
\* connection holds an uncommitted row with the same username.
CuInsert(c) ==
  /\ upc[c] = "check" /\ row[c] = NoRow
  /\ ~Taken(c)
  /\ pending' = [pending EXCEPT ![c] =
                   [user_id |-> nextId, username |-> data[c]]]
  /\ nextId' = nextId + 1
  /\ upc' = [upc EXCEPT ![c] = "commit"]
  /\ UNCHANGED <<users, data, row, new_id, uresp, seen>>
  /\ UNCHANGED pipeVars

\* Line 146 raises: the UNIQUE constraint of username rejects the row, or the
\* wait for the other connection's row times out.  Nothing in create_user
\* catches the exception, the server answers 500.  Whether the rejected
\* INSERT has used up a value of user_id is the database's choice.
CuInsertRaise(c) ==
  /\ upc[c] = "check" /\ row[c] = NoRow
  /\ Taken(c)
  /\ \E n \in {nextId, nextId + 1} : nextId' = n
  /\ uresp' = [uresp EXCEPT ![c] = UserError(500, "Internal Server Error")]
  /\ upc' = [upc EXCEPT ![c] = "done"]
  /\ UNCHANGED <<users, pending, data, row, new_id, seen>>
  /\ UNCHANGED pipeVars

\* Line 147: conn.commit().
CuCommit(c) ==
  /\ upc[c] = "commit"
  /\ users' = users \cup {pending[c]}
  /\ pending' = [pending EXCEPT ![c] = NoRow]
  /\ upc' = [upc EXCEPT ![c] = "select_max"]
  /\ UNCHANGED <<nextId, data, row, new_id, uresp, seen>>
  /\ UNCHANGED pipeVars

\* Lines 150-152: SELECT MAX(user_id) over the committed rows.
CuSelectMax(c) ==
  /\ upc[c] = "select_max"
  /\ new_id' = [new_id EXCEPT ![c] = MaxUserId(users)]
  /\ upc' = [upc EXCEPT ![c] = "return"]
  /\ UNCHANGED <<users, nextId, pending, data, row, uresp, seen>>
  /\ UNCHANGED pipeVars

\* Lines 154-158.
CuReturn(c) ==
  /\ upc[c] = "return"
  /\ uresp' = [uresp EXCEPT ![c] = UserResponse(new_id[c], data[c])]
  /\ upc' = [upc EXCEPT ![c] = "done"]
  /\ UNCHANGED <<users, nextId, pending, data, row, new_id, seen>>
  /\ UNCHANGED pipeVars

\* Lines 182-196: read_user with the user_id that create_user returned to
\* caller c.
ReadUser(c) ==
  /\ upc[c] = "done" /\ uresp[c].status = 200
  /\ seen[c] = NoUserResponse
  /\ seen' = [seen EXCEPT ![c] =
       IF ById(users, uresp[c].user_id) = {}
         THEN UserError(404, "user not found")
         ELSE LET u == CHOOSE u \in ById(users, uresp[c].user_id) : TRUE
              IN  UserResponse(u.user_id, u.username)]
  /\ UNCHANGED <<users, nextId, pending, upc, data, row, new_id, uresp>>
  /\ UNCHANGED pipeVars

\* Two requests to /users, the upload handlers at rest.
InitUsers ==
  /\ Started([r \in Runs |-> NoReq])
  /\ \E d \in [Callers -> UserNames] : Called(d)

NextUsers ==
  \E c \in Callers :
    \/ CuSelect(c) \/ CuDuplicate(c)
    \/ CuInsert(c) \/ CuInsertRaise(c)
    \/ CuCommit(c) \/ CuSelectMax(c) \/ CuReturn(c)
    \/ ReadUser(c)

SpecUsers == InitUsers /\ [][NextUsers]_vars

(***************************************************************************)
(* Reading an artifact: its lines, and the parts of a segment line.        *)
(***************************************************************************)
FirstNewline(d) ==
  IF \E i \in 1..Len(d) : d[i] = "\n"
    THEN CHOOSE i \in 1..Len(d) : d[i] = "\n" /\ \A j \in 1..(i - 1) : d[j] # "\n"
    ELSE Len(d) + 1

\* The lines of a text, without their line ends.
RECURSIVE LinesOf(_)
LinesOf(d) ==
  IF d = <<>> THEN <<>>
  ELSE <<SubSeq(d, 1, FirstNewline(d) - 1)>>
         \o LinesOf(SubSeq(d, FirstNewline(d) + 1, Len(d)))

\* The segment lines of an artifact: all lines but the header.
SegmentLines(d) == Tail(LinesOf(d))

\* The "[<start>s - <end>s] " a segment line starts with, and what follows it.
TimingOf(line) == line[1]
TextOf(line) == Tail(line)

SentinelMarker == "translation failed: "

IsSentinel(line) == Len(line) >= 2 /\ line[2] = SentinelMarker

Translation(r) == fs[EnglishTranscriptionFile(req[r].file)].data
Transcript(r) == fs[TranscriptionFile(req[r].file)].data

\* Run r is inside the try body of lines 272-282.
InTryBody(r) ==
  \/ pc[r] = "translate" /\ idx[r] <= Len(result[r])
  \/ pc[r] = "write_translated"

\* All segments of run r have been handled, the translation call raised for
\* segment k and nothing else raised in the loop.
RaisedOnlyAt(r, k) ==
  /\ Len(calls[r]) = Len(result[r])
  /\ calls[r][k].raised = "call"
  /\ \A i \in 1..Len(result[r]) : i # k => calls[r][i].raised = "no"

RECURSIVE Flatten(_)
Flatten(ss) == IF ss = <<>> THEN <<>> ELSE Head(ss) \o Flatten(Tail(ss))

\* Run r takes the step that sends its 200 response.
Succeeds(r) ==
  req[r].kind = "stt" /\ response[r].status = 0 /\ response'[r].status = 200

\* Every line of the text d is ended.
Ended(d) == d # <<>> /\ d[Len(d)] = "\n"

C5_RoundTrip ==
  [][\A r \in Runs :
       Succeeds(r) =>
         /\ response'[r].transcription = fs'[TranscriptionFile(req[r].file)].data
         /\ response'[r].translation
              = fs'[EnglishTranscriptionFile(req[r].file)].data
         /\ response'[r].transcription
              = <<"[KO]", "\n">>
                  \o Flatten([i \in 1..Len(result[r]) |->
                                <<TimePrefix(result[r][i])>>
                                  \o result[r][i].text \o <<"\n">>])
         /\ response'[r].translation
              = Head(translation[r]) \o <<"\n">> \o Flatten(Tail(translation[r]))
    ]_vars

\* One run is suspended at its await, with its video file open, while another
\* run for the same root name has answered 200 with a segment line.
C5_Witness ==
  \E r \in Runs, o \in Runs :
    /\ r # o
    /\ pc[o] = "await_read"
    /\ req[o].file.root = req[r].file.root
    /\ response[r].status = 200 /\ req[r].kind = "stt"
    /\ Len(SegmentLines(response[r].transcription)) >= 1

(***************************************************************************)
(* The stages of a run of upload_and_transcribe.                           *)
(***************************************************************************)
StageOrder ==
  <<"Received", "VideoPersisted", "AudioExtracted", "Transcribed",
    "TranscriptWritten", "Translating", "TranslationWritten", "Completed">>

StageOf(r) ==
  CASE pc[r] \in {"received", "await_read"} -> "Received"
    [] pc[r] \in {"open_clip", "write_audio", "close_clip"} -> "VideoPersisted"
    [] pc[r] = "transcribe" -> "AudioExtracted"
    [] pc[r] \in {"open_transcript", "write_transcript"} -> "Transcribed"
    [] pc[r] = "open_translation" -> "TranscriptWritten"
    [] pc[r] \in {"translate", "write_translated", "write_sentinel"} -> "Translating"
    [] pc[r] = "read_back" -> "TranslationWritten"
    [] pc[r] = "done" /\ response[r].status = 200 -> "Completed"
    [] OTHER -> "Failed"

Rank(stage) == CHOOSE i \in 1..Len(StageOrder) : StageOrder[i] = stage

\* The translation artifact of run r is open and its header is written.
WritingBegun(r) == pc[r] \in {"translate", "write_translated", "write_sentinel"}

\* The number of translation calls run r has made.
CallsMade(r) ==
  IF pc[r] \in {"write_translated", "write_sentinel"} THEN idx[r] ELSE idx[r] - 1

(***************************************************************************)
(* C6 as stated: the stages include a translation stage that is over       *)
(* before the writing of the translation artifact begins.                  *)
(***************************************************************************)
C6_WritingAfterTranslation ==
  \A r \in Runs : WritingBegun(r) => CallsMade(r) = Len(result[r])

(***************************************************************************)
(* C6 amended.  A run goes through Received, VideoPersisted,               *)
(* AudioExtracted, Transcribed, TranscriptWritten, Translating,            *)
(* TranslationWritten, Completed in this order, one stage at a time, or    *)
(* from any of them but Completed to Failed; Completed and Failed are      *)
(* final.  Translating is one stage: the translation artifact is opened    *)
(* first, and each segment is translated and its line written before the   *)
(* next segment is translated.                                             *)
(***************************************************************************)
C6_Stages ==
  [][\A r \in Runs :
       req[r].kind = "stt" =>
         LET a == StageOf(r)
             b == StageOf(r)'
         IN  /\ \/ b = a
                \/ b = "Failed" /\ a # "Completed"
                \/ /\ a \notin {"Completed", "Failed"}
                   /\ b # "Failed"
                   /\ Rank(b) = Rank(a) + 1
             /\ (pc[r] = "translate" /\ pc'[r] # "translate" /\ b = a) =>
                  /\ Ended(Translation(r))
                  /\ Len(SegmentLines(Translation(r))) = CallsMade(r)
                  /\ CallsMade(r) < Len(result[r])
    ]_vars

\* A run is about to translate its second segment of at least two: the line
\* of the first is in the artifact.
C6_Witness ==
  \E r \in Runs :
    /\ pc[r] = "translate" /\ idx[r] = 2 /\ Len(result[r]) >= 2
    /\ Len(SegmentLines(Translation(r))) = 1

(***************************************************************************)
(* C7.  Concurrent runs never corrupt each other's files: the video a run  *)
(* decodes, or has persisted when upload_video returns, holds the bytes of *)
(* its own upload and nothing else, and so do the files derived from it.   *)
(***************************************************************************)
C7_NoCorruption ==
  \A r \in Runs :
    /\ pc[r] \in {"open_clip", "uv_return"} =>
         fs[VideoPath(req[r].file)].data = req[r].content
    /\ pc[r] = "transcribe" =>
         fs[AudioPath(req[r].file)].data = <<"RIFF">> \o req[r].content
    /\ pc[r] = "read_back" =>
         Len(SegmentLines(Transcript(r))) = Len(req[r].content)

\* The position of a failure is in the audio extraction (lines 238-241).
InAudioExtraction(pos) == pos \in {"open_clip", "write_audio"}

(***************************************************************************)
(* C8.  When the audio extraction fails the run aborts there: no           *)
(* transcription and no translation is made, and after the failure         *)
(* response there is no audio, transcript or translation artifact of the   *)
(* upload.                                                                 *)
(***************************************************************************)
C8_NoArtifactsAfterExtractionFailure ==
  \A r \in Runs :
    /\ (pc[r] = "except" /\ InAudioExtraction(failedAt[r])) =>
         result[r] = <<>> /\ calls[r] = <<>>
    /\ (pc[r] = "done" /\ InAudioExtraction(failedAt[r])) =>
         /\ response[r].status = 500
         /\ ~fs[AudioPath(req[r].file)].exists
         /\ ~fs[TranscriptionFile(req[r].file)].exists
         /\ ~fs[EnglishTranscriptionFile(req[r].file)].exists

\* The stage a position of the handler belongs to.
StageAt(pos) ==
  CASE pos \in {"received", "await_read"} -> "video-persistence"
    [] pos \in {"open_clip", "write_audio", "close_clip"} -> "audio-extraction"
    [] pos = "transcribe" -> "transcription"
    [] pos \in {"open_transcript", "write_transcript"} -> "transcript-writing"
    [] pos \in {"open_translation", "translate", "write_sentinel"} ->
         "translation-writing"
    [] OTHER -> "read-back"

(***************************************************************************)
(* C9.  A failure response identifies the stage at which the run failed:   *)
(* two runs that failed at different stages have different responses.      *)
(***************************************************************************)
C9_StageIdentified ==
  \A r \in Runs, o \in Runs :
    ( /\ req[r].kind = "stt" /\ req[o].kind = "stt"
      /\ pc[r] = "done" /\ pc[o] = "done"
      /\ failedAt[r] # "" /\ failedAt[o] # ""
      /\ StageAt(failedAt[r]) # StageAt(failedAt[o]) )
    => response[r] # response[o]

(***************************************************************************)
(* C10.  No run is over, completed or failed, with its audio clip open.    *)
(***************************************************************************)
C10_ClipClosed ==
  \A r \in Runs : pc[r] = "done" => ~clip[r].open

\* Runs r and o got the same result from the translation service for every
\* segment: a failure for both, or the same text once stripped.
SameTranslations(r, o) ==
  LET a == SegmentLines(response[r].translation)
      b == SegmentLines(response[o].translation)
  IN  \A i \in 1..Len(a) :
        i <= Len(b) =>
          /\ IsSentinel(a[i]) <=> IsSentinel(b[i])
          /\ ~IsSentinel(a[i]) => TextOf(a[i]) = TextOf(b[i])

\* Runs r and o of upload_and_transcribe both answered 200, for the same
\* filename and the same bytes, with the same results of the backends.
RanTwice(r, o) ==
  /\ r # o
  /\ req[r].kind = "stt" /\ req[o].kind = "stt"
  /\ pc[r] = "done" /\ pc[o] = "done"
  /\ response[r].status = 200 /\ response[o].status = 200
  /\ req[r].file = req[o].file
  /\ req[r].content = req[o].content
  /\ SameTranslations(r, o)

(***************************************************************************)
(* C11.  Idempotence: when the pipeline has run twice on the same filename *)
(* and the same bytes with the same results of the backends, the two runs  *)
(* returned the same transcript and the same translation, and the two      *)
(* artifacts on disk hold exactly these texts: the second run overwrote    *)
(* the artifacts of the first, it did not append to them.                  *)
(***************************************************************************)
C11_Idempotent ==
  \A r \in Runs, o \in Runs :
    RanTwice(r, o) =>
      /\ response[r].transcription = response[o].transcription
      /\ response[r].translation = response[o].translation
      /\ fs[TranscriptionFile(req[r].file)].data = response[r].transcription
      /\ fs[EnglishTranscriptionFile(req[r].file)].data = response[r].translation
      /\ fs[AudioPath(req[r].file)].data = <<"RIFF">> \o req[r].content

\* The pipeline has run twice on the same one-utterance upload and the
\* translation failed both times.
C11_Witness ==
  \E r \in Runs, o \in Runs :
    /\ RanTwice(r, o)
    /\ Len(req[r].content) >= 1
    /\ IsSentinel(SegmentLines(response[r].translation)[1])
    /\ IsSentinel(SegmentLines(response[o].translation)[1])

\* Run r is over with exactly one response, a success or a failure.
Over(r) ==
  /\ pc[r] = "done" /\ sent[r] = 1
  /\ response[r].status \in {200, 500}
  /\ response[r].status = 200 <=> failedAt[r] = ""

(***************************************************************************)
(* C13.  Termination: when every call returns or raises, a run of          *)
(* upload_and_transcribe that has started ends with exactly one response,  *)
(* 200 or 500; and a failed translation of segment k does not stop it: the *)
(* run goes on to segment k + 1 (or ends on a failure of another kind) and *)
(* ends with its one response.                                             *)
(***************************************************************************)
C13_Terminates ==
  \A r \in Runs :
    /\ (req[r].kind = "stt" /\ pc[r] = "received") ~> Over(r)
    /\ \A k \in 1..MaxLiveSegs :
         (pc[r] = "write_sentinel" /\ idx[r] = k)
           ~> (\/ pc[r] = "translate" /\ idx[r] = k + 1
               \/ failedAt[r] = "write_sentinel")
    /\ (pc[r] = "write_sentinel") ~> Over(r)
    /\ [](pc[r] = "done" => Over(r))

\* A run whose first translation failed went on to translate the second
\* segment and ended with a 200 response.
C13_Witness ==
  \E r \in Runs :
    /\ Over(r) /\ response[r].status = 200 /\ req[r].kind = "stt"
    /\ LET lines == SegmentLines(response[r].translation)
       IN  /\ Len(lines) >= 2
           /\ IsSentinel(lines[1])
           /\ ~IsSentinel(lines[2])

\* Caller c's create_user request has been answered.
Answered(c) == upc[c] = "done"

(***************************************************************************)
(* C12.  Duplicate usernames: the table never holds two rows with the same *)
(* username; a create_user request for a username that a committed row     *)
(* holds ends with the 400 "username already in use" and adds no row; and  *)
(* of two concurrent requests for the same new username one is answered    *)
(* 200 and the other with that 400.                                        *)
(***************************************************************************)
C12_DuplicateRejected ==
  /\ \A u \in users, v \in users : u.username = v.username => u = v
  /\ \A c \in Callers :
       Answered(c) =>
         \/ uresp[c].status = 200 /\ ByName(users, data[c]) # {}
         \/ uresp[c] = UserError(400, "username already in use")
  /\ \A c \in Callers, o \in Callers :
       (c # o /\ data[c] = data[o] /\ Answered(c) /\ Answered(o)
          /\ data[c] \notin { u.username : u \in SampleUsers }) =>
         /\ Cardinality(ByName(users, data[c])) = 1
         /\ {uresp[c].status, uresp[o].status} = {200, 400}

(***************************************************************************)
(* C14.  The user_id that create_user returns is the id of the row the     *)
(* call inserted: the table holds a row with that id and the username of   *)
(* the request, and read_user with that id answers with that username.     *)
(***************************************************************************)
C14_ReturnedIdIsOwn ==
  \A c \in Callers :
    /\ (Answered(c) /\ uresp[c].status = 200) =>
         [user_id |-> uresp[c].user_id, username |-> data[c]] \in users
    /\ seen[c] # NoUserResponse =>
         /\ seen[c].status = 200
         /\ seen[c].username = data[c]

====
